---- MODULE Spec2Model ----
(***************************************************************************)
(* cleanrust: clean_dir walks a directory tree with a pool of workers that *)
(* share one unbounded channel of jobs.  A Scan job lists one directory    *)
(* and classifies its entries with the ScanState machine of process_entry; *)
(* a Remove job deletes one directory tree.  The channel disconnects when  *)
(* the last Sender handle is dropped, which ends the workers.              *)
(***************************************************************************)
EXTENDS Naturals, Sequences, FiniteSets, Bags, TLC

\* ------------------------------------------------------------------ bounds
MaxWorkers == 2     \* largest worker_count tried
MaxEntries == 3     \* largest number of entries in the whole tree
MaxDepth == 2       \* longest path below the root directory
MaxFaults == 1      \* largest number of filesystem failures in one run
MaxLen == 3         \* longest single listing given to scan on its own

\* Entry names a listing can yield: the two markers and two ordinary names.
CargoToml == "Cargo.toml"
Target == "target"
Names == {CargoToml, Target, "a", "b"}

\* ------------------------------------------------------- the directory tree
\* A path is the sequence of names below the directory given to clean_dir;
\* the root directory itself is <<>>.  An entry is a path and its file type.
Root == << >>

Parent(p) == SubSeq(p, 1, Len(p) - 1)

FileName(p) == p[Len(p)]

IsPrefix(p, q) == Len(p) <= Len(q) /\ SubSeq(q, 1, Len(p)) = p

IsDirIn(t, p) == p = Root \/ [path |-> p, dir |-> TRUE] \in t

\* The entries that may be added to tree t: a new name in an existing directory.
\* process_entry tells names apart only from the two markers, so "b" stands for
\* any further directory and is used only beside an entry named "a".
NewEntries(t) ==
    { e \in [path : { Append(d, n) : d \in {Root} \cup { x.path : x \in t }, n \in Names },
             dir : BOOLEAN] :
        /\ Len(e.path) <= MaxDepth
        /\ IsDirIn(t, Parent(e.path))
        /\ \A x \in t : x.path # e.path
        /\ FileName(e.path) = "b" =>
              e.dir /\ \E x \in t : x.path = Append(Parent(e.path), "a") }

RECURSIVE TreesUpTo(_)
TreesUpTo(k) ==
    IF k = 0 THEN { {} }
    ELSE LET smaller == TreesUpTo(k - 1)
         IN  smaller \cup UNION { { t \cup {e} : e \in NewEntries(t) } : t \in smaller }

Trees == TreesUpTo(MaxEntries)

\* ------------------------------------------------------------------- jobs
ScanJob(p) == [kind |-> "Scan", path |-> p]

RemoveJob(p) == [kind |-> "Remove", path |-> p]

NoJob == [kind |-> "None", path |-> Root]

\* ScanState, with the pending path of FoundTarget (Root when there is none).
Nothing == [tag |-> "Nothing", path |-> Root]

FoundCargoToml == [tag |-> "FoundCargoToml", path |-> Root]

FoundTarget(p) == [tag |-> "FoundTarget", path |-> p]

\* Slips in process_entry's match arms: the pending target forgotten when the
\* manifest comes second; the pending target kept pending after its Remove job
\* was yielded; a target after the manifest ignored; a target removed without
\* waiting for the manifest; a pending target scanned.
OnCargoTomlForgets(st) == [state |-> FoundCargoToml, job |-> NoJob]

OnCargoTomlKeeps(st) ==
    CASE st.tag = "Nothing" -> [state |-> FoundCargoToml, job |-> NoJob]
      [] st.tag = "FoundCargoToml" -> [state |-> st, job |-> NoJob]
      [] st.tag = "FoundTarget" -> [state |-> st, job |-> RemoveJob(st.path)]

\* process_entry on an entry named Cargo.toml, whatever its file type.
OnCargoToml(st) ==
    CASE st.tag = "Nothing" -> [state |-> FoundCargoToml, job |-> NoJob]
      [] st.tag = "FoundCargoToml" -> [state |-> st, job |-> NoJob]
      [] st.tag = "FoundTarget" -> [state |-> FoundCargoToml, job |-> RemoveJob(st.path)]

OnTargetLate(st, p) ==
    CASE st.tag = "Nothing" -> [state |-> FoundTarget(p), job |-> NoJob]
      [] st.tag = "FoundCargoToml" -> [state |-> st, job |-> NoJob]
      [] st.tag = "FoundTarget" -> [state |-> st, job |-> NoJob]

OnTargetEager(st, p) == [state |-> st, job |-> RemoveJob(p)]

OnTargetScans(st, p) ==
    CASE st.tag = "Nothing" -> [state |-> FoundTarget(p), job |-> ScanJob(p)]
      [] st.tag = "FoundCargoToml" -> [state |-> st, job |-> RemoveJob(p)]
      [] st.tag = "FoundTarget" -> [state |-> st, job |-> NoJob]

\* process_entry on a directory named target.
OnTarget(st, p) ==
    CASE st.tag = "Nothing" -> [state |-> FoundTarget(p), job |-> NoJob]
      [] st.tag = "FoundCargoToml" -> [state |-> st, job |-> RemoveJob(p)]
      [] st.tag = "FoundTarget" -> [state |-> st, job |-> NoJob]

\* process_entry once the entry's file type is known: the next ScanState and
\* the job yielded (NoJob for None).
ProcessEntry(st, e) ==
    IF FileName(e.path) = CargoToml
    THEN OnCargoToml(st)
    ELSE IF e.dir /\ FileName(e.path) = Target
    THEN OnTarget(st, e.path)
    ELSE IF e.dir
    THEN [state |-> st, job |-> ScanJob(e.path)]
    ELSE [state |-> st, job |-> NoJob]

\* ------------------------------------------------------------------ state
VARIABLES
    tree,           \* the directory tree clean_dir is given (entries below dir)
    worker_count,   \* clean_dir's worker_count
    removed,        \* paths remove_dir_all has deleted
    queue,          \* the channel's pending jobs, oldest first
    senders,        \* live Sender handles of the channel
    receivers,      \* live Receiver handles of the channel
    pc,             \* per worker: "recv", "scan", "remove" or "exited"
    job,            \* per worker: the job it holds
    iter,           \* per worker: entries its read_dir iterator has yet to yield
    state,          \* per worker: the ScanState of its scan
    scan_error,     \* per worker: has_error of the fold over the scan's jobs
    has_error,      \* per worker: has_error of the fold over received jobs
    main,           \* clean_dir itself: "scope" until the workers are joined
    result,         \* clean_dir's return value, once main = "returned"
    status,         \* the Observer: Status's three counters and the events
    sent,           \* bag of jobs ever sent on the channel
    executed        \* bag of jobs a worker has finished

\* One Scan job taken on its own: a worker folding over what scan() yields for
\* a given listing, entry by entry.
VARIABLES
    listing,        \* the entries read_dir yields, in order: name, dir, ok
    pos,            \* how many of them the iterator has yielded
    sstate,         \* the ScanState of this scan
    out,            \* the jobs the iterator yielded, each with the entry's position
    send_ok,        \* whether the channel still has its Receiver
    serrors,        \* on_error calls made during this job
    sscanned,       \* on_scanned calls made during this job
    sflag,          \* has_error of the fold over the scan's jobs
    sacc            \* the worker's has_error, before and after this job

runVars == << tree, worker_count, removed, queue, senders, receivers, pc, job, iter,
              state, scan_error, has_error, main, result, status, sent, executed >>

scanVars == << listing, pos, sstate, out, send_ok, serrors, sscanned, sflag, sacc >>

vars == << runVars, scanVars >>

Workers == 1 .. MaxWorkers

Spawned == 1 .. worker_count

\* ------------------------------------------------------------ the filesystem
Exists(p) == \A r \in removed : ~IsPrefix(r, p)

\* What read_dir(d) lists: the entries directly inside d.
Listing(d) == { e \in tree : Len(e.path) = Len(d) + 1 /\ Parent(e.path) = d /\ Exists(e.path) }

\* The filesystem may fail an operation while the run has failures to spare.
MayFail == status.error_count < MaxFaults

\* --------------------------------------------------------------- Observer
\* Status counts the events; events is the bag of them, each with its origin
\* and path, as a recording Observer would keep.
Event(ev, p) == [ev |-> ev, path |-> p]

on_error(s, origin, p) ==
    [s EXCEPT !.error_count = @ + 1, !.events = @ (+) SetToBag({Event(origin, p)})]

on_removal_unreported(s, p) == s

on_removal(s, p) ==
    [s EXCEPT !.removed_count = @ + 1, !.events = @ (+) SetToBag({Event("removal", p)})]

on_scanned_uncounted(s, p) ==
    [s EXCEPT !.events = @ (+) SetToBag({Event("scanned", p)})]

on_scanned(s, p) ==
    [s EXCEPT !.scanned_count = @ + 1, !.events = @ (+) SetToBag({Event("scanned", p)})]

\* ------------------------------------------------------------- the channel
\* Sender::send fails only when every Receiver is gone.
SendFails == receivers = 0

\* Receiver::recv hands the oldest job to one worker and takes it off the queue.
DequeueKeeps(q) == q

Dequeue(q) == Tail(q)

\* Receiver::recv is disconnected when the queue is empty and no Sender is left.
DisconnectedUndrained == senders = 0

Disconnected == queue = << >> /\ senders = 0

\* Sender handles left after clean_dir seeds the queue: the original, the clone
\* inside the root Scan job, less the original it drops.
SeedSendersKept == 1 + 1

SeedSenders == (1 + 1) - 1

\* -------------------------------------------------------------------- Init
\* No Scan job is being looked at on its own.
ScanIdle ==
    /\ listing = << >>
    /\ pos = 0
    /\ sstate = Nothing
    /\ out = << >>
    /\ send_ok = TRUE
    /\ serrors = 0
    /\ sscanned = 0
    /\ sflag = FALSE
    /\ sacc = FALSE

\* clean_dir after seeding the queue and spawning worker_count workers.
Init ==
    /\ tree \in Trees
    /\ worker_count \in 0 .. MaxWorkers
    /\ removed = {}
    /\ queue = << ScanJob(Root) >>
    /\ senders = SeedSenders
    /\ receivers = 1
    /\ pc = [w \in Workers |-> IF w <= worker_count THEN "recv" ELSE "unspawned"]
    /\ job = [w \in Workers |-> NoJob]
    /\ iter = [w \in Workers |-> {}]
    /\ state = [w \in Workers |-> Nothing]
    /\ scan_error = [w \in Workers |-> FALSE]
    /\ has_error = [w \in Workers |-> FALSE]
    /\ main = "scope"
    /\ result = FALSE
    /\ status = [error_count |-> 0, removed_count |-> 0, scanned_count |-> 0,
                 events |-> EmptyBag]
    /\ sent = SetToBag({ScanJob(Root)})
    /\ executed = EmptyBag
    /\ ScanIdle

\* ----------------------------------------------------------------- workers
\* What the worker reports when read_dir fails: the error, then on_scanned.
ListingFailedSilent(s, d) == on_error(s, "listing", d)

ListingFailed(s, d) == on_scanned(on_error(s, "listing", d), d)

\* The fold over received jobs: has_error || has_new_error.
FoldErrorOverwrite(acc, new) == new

FoldError(acc, new) == acc \/ new

\* Whatever a job's outcome, the fold goes on to receive the next job.
NextPcAbort(failed) == IF failed THEN "exited" ELSE "recv"

NextPc(failed) == "recv"

\* The fold over a scan's jobs: sender.send(job).is_err() || has_error.
FoldScanItemSilent(acc, send_err) == acc

FoldScanItem(acc, send_err) == send_err \/ acc

\* The fold over a scan's jobs ends when the iterator has no entry left.
ExhaustedEarly(entries) == TRUE

Exhausted(entries) == entries = {}

\* receiver.iter() yields a Scan job and scan() calls read_dir.  When read_dir
\* fails the whole job ends here: scan's Sender clone and the job's are dropped.
RecvScan(w) ==
    /\ pc[w] = "recv"
    /\ queue # << >>
    /\ Head(queue).kind = "Scan"
    /\ queue' = Dequeue(queue)
    /\ \/ /\ pc' = [pc EXCEPT ![w] = "scan"]
          /\ job' = [job EXCEPT ![w] = Head(queue)]
          /\ iter' = [iter EXCEPT ![w] = Listing(Head(queue).path)]
          /\ state' = [state EXCEPT ![w] = Nothing]
          /\ scan_error' = [scan_error EXCEPT ![w] = FALSE]
          /\ senders' = senders + 1
          /\ UNCHANGED << status, has_error, executed >>
       \/ /\ MayFail
          /\ status' = ListingFailed(status, Head(queue).path)
          /\ has_error' = [has_error EXCEPT ![w] = FoldError(@, TRUE)]
          /\ senders' = senders - 1
          /\ executed' = executed (+) SetToBag({Head(queue)})
          /\ pc' = [pc EXCEPT ![w] = NextPc(TRUE)]
          /\ UNCHANGED << job, iter, state, scan_error >>
    /\ UNCHANGED << tree, worker_count, removed, receivers, main, result, sent >>
    /\ UNCHANGED scanVars

\* The scan iterator yields its next entry (in any order) and the worker sends
\* the job made of it, or reports the entry's error.
ScanEntry(w) ==
    /\ pc[w] = "scan"
    /\ \E e \in iter[w] :
        /\ iter' = [iter EXCEPT ![w] = @ \ {e}]
        /\ \/ LET r == ProcessEntry(state[w], e)
              IN  /\ state' = [state EXCEPT ![w] = r.state]
                  /\ IF r.job = NoJob
                     THEN UNCHANGED << queue, sent, senders, scan_error >>
                     ELSE IF SendFails
                     THEN /\ scan_error' = [scan_error EXCEPT ![w] = FoldScanItem(@, TRUE)]
                          /\ UNCHANGED << queue, sent, senders >>
                     ELSE /\ queue' = Append(queue, r.job)
                          /\ sent' = sent (+) SetToBag({r.job})
                          /\ senders' = IF r.job.kind = "Scan" THEN senders + 1 ELSE senders
                          /\ scan_error' = [scan_error EXCEPT ![w] = FoldScanItem(@, FALSE)]
                  /\ UNCHANGED status
           \/ /\ MayFail
              /\ status' = on_error(status, "entry", e.path)
              /\ scan_error' = [scan_error EXCEPT ![w] = TRUE]
              /\ UNCHANGED << state, queue, sent, senders >>
    /\ UNCHANGED << tree, worker_count, removed, receivers, pc, job, has_error, main,
                    result, executed >>
    /\ UNCHANGED scanVars

\* The iterator is exhausted: it and the job's Sender are dropped, on_scanned
\* is reported and the scan's has_error is folded into the worker's.
ScanDone(w) ==
    /\ pc[w] = "scan"
    /\ Exhausted(iter[w])
    /\ status' = on_scanned(status, job[w].path)
    /\ has_error' = [has_error EXCEPT ![w] = FoldError(@, scan_error[w])]
    /\ senders' = senders - 2
    /\ executed' = executed (+) SetToBag({job[w]})
    /\ pc' = [pc EXCEPT ![w] = NextPc(scan_error[w])]
    /\ job' = [job EXCEPT ![w] = NoJob]
    /\ state' = [state EXCEPT ![w] = Nothing]
    /\ scan_error' = [scan_error EXCEPT ![w] = FALSE]
    /\ UNCHANGED << tree, worker_count, removed, queue, receivers, iter, main, result, sent >>
    /\ UNCHANGED scanVars

\* receiver.iter() yields a Remove job.
RecvRemove(w) ==
    /\ pc[w] = "recv"
    /\ queue # << >>
    /\ Head(queue).kind = "Remove"
    /\ queue' = Dequeue(queue)
    /\ job' = [job EXCEPT ![w] = Head(queue)]
    /\ pc' = [pc EXCEPT ![w] = "remove"]
    /\ UNCHANGED << tree, worker_count, removed, senders, receivers, iter, state,
                    scan_error, has_error, main, result, status, sent, executed >>
    /\ UNCHANGED scanVars

\* remove_dir_all on the job's path: it fails when the path is gone, and may
\* fail otherwise.
Remove(w) ==
    /\ pc[w] = "remove"
    /\ \/ /\ Exists(job[w].path)
          /\ removed' = removed \cup {job[w].path}
          /\ status' = on_removal(status, job[w].path)
          /\ has_error' = [has_error EXCEPT ![w] = FoldError(@, FALSE)]
          /\ pc' = [pc EXCEPT ![w] = NextPc(FALSE)]
       \/ /\ MayFail \/ ~Exists(job[w].path)
          /\ status' = on_error(status, "remove", job[w].path)
          /\ has_error' = [has_error EXCEPT ![w] = FoldError(@, TRUE)]
          /\ pc' = [pc EXCEPT ![w] = NextPc(TRUE)]
          /\ UNCHANGED removed
    /\ executed' = executed (+) SetToBag({job[w]})
    /\ job' = [job EXCEPT ![w] = NoJob]
    /\ UNCHANGED << tree, worker_count, queue, senders, receivers, iter, state,
                    scan_error, main, result, sent >>
    /\ UNCHANGED scanVars

\* receiver.iter() ends: the worker's closure returns its has_error.
WorkerExit(w) ==
    /\ pc[w] = "recv"
    /\ Disconnected
    /\ pc' = [pc EXCEPT ![w] = "exited"]
    /\ UNCHANGED << tree, worker_count, removed, queue, senders, receivers, job, iter,
                    state, scan_error, has_error, main, result, status, sent, executed >>
    /\ UNCHANGED scanVars

\* has_error of the scope: any worker's has_error.
AnyErrorOrNone == worker_count = 0 \/ \E w \in Spawned : has_error[w]

AnyError == \E w \in Spawned : has_error[w]

\* thread::scope joins every worker it spawned before clean_dir goes on.
AllJoinedDetached == TRUE

AllJoined == \A w \in Spawned : pc[w] = "exited"

\* Every spawned worker is joined; clean_dir returns !has_error and its
\* Receiver goes out of scope.
Join ==
    /\ main = "scope"
    /\ AllJoined
    /\ result' = ~AnyError
    /\ receivers' = 0
    /\ main' = "returned"
    /\ UNCHANGED << tree, worker_count, removed, queue, senders, pc, job, iter, state,
                    scan_error, has_error, status, sent, executed >>
    /\ UNCHANGED scanVars

WorkerStep(w) ==
    \/ RecvScan(w)
    \/ ScanEntry(w)
    \/ ScanDone(w)
    \/ RecvRemove(w)
    \/ Remove(w)
    \/ WorkerExit(w)

Next == Join \/ \E w \in Workers : WorkerStep(w)

Spec == Init /\ [][Next]_vars

\* Worker threads and the joining thread are scheduled fairly.
FairSpec == Spec /\ WF_vars(Join) /\ \A w \in Workers : WF_vars(WorkerStep(w))

\* ====================================================== properties of a run
\* Directories of the tree, the root included.
Dirs == {Root} \cup { e.path : e \in { x \in tree : x.dir } }

\* Directories the walk can reach: the root, and those below it through
\* directories none of which is named target or Cargo.toml.
Scannable(p) ==
    /\ p \in Dirs
    /\ \A i \in 1 .. Len(p) : p[i] # Target /\ p[i] # CargoToml

HasManifest(d) ==
    \E e \in tree : Len(e.path) = Len(d) + 1 /\ Parent(e.path) = d /\ FileName(e.path) = CargoToml

\* Directories named target with a sibling entry named Cargo.toml.
MatchedTargets ==
    { e.path : e \in { x \in tree : x.dir /\ FileName(x.path) = Target
                                      /\ HasManifest(Parent(x.path)) } }

PathsOf(kind, bag) == { j.path : j \in { k \in BagToSet(bag) : k.kind = kind } }

EventPaths(ev) == { x.path : x \in { y \in BagToSet(status.events) : y.ev = ev } }

Returned == main = "returned"

CleanRun == Returned /\ worker_count >= 1 /\ status.error_count = 0

\* C1 as stated: after a run with at least one worker and no failure, the paths
\* of the executed Remove jobs are exactly the directories named target that
\* have a sibling entry named Cargo.toml, anywhere in the tree.
C1_AnyTree == CleanRun => PathsOf("Remove", executed) = MatchedTargets

\* C1 amended: after a run with at least one worker and no failure, the paths
\* of the executed Remove jobs are exactly the directories named target with a
\* sibling entry named Cargo.toml whose parent directory the walk reaches (the
\* root, or below it through directories not named target or Cargo.toml).
C1_RemovedAreMatchedReachable ==
    CleanRun => PathsOf("Remove", executed) = { t \in MatchedTargets : Scannable(Parent(t)) }

C1_Witness ==
    /\ CleanRun
    /\ \E t \in PathsOf("Remove", executed) : Len(t) = 2

\* C2: with at least one worker, under fair scheduling every worker eventually
\* exits its receive loop and clean_dir returns.
C2_Terminates ==
    (worker_count >= 1) => <>(Returned /\ \A w \in Spawned : pc[w] = "exited")

C2_Witness ==
    /\ Returned
    /\ worker_count = MaxWorkers
    /\ status.scanned_count >= 2
    /\ \A w \in Spawned : pc[w] = "exited"

\* C3: once a worker has left its receive loop no job is pending and no worker
\* is inside a Scan job; and when clean_dir has returned every job ever sent,
\* Scan or Remove, has been executed.
C3_NoEarlyExit ==
    /\ (\E w \in Workers : pc[w] = "exited") =>
            queue = << >> /\ \A v \in Workers : pc[v] # "scan"
    /\ Returned /\ worker_count >= 1 => executed = sent

C3_Witness ==
    /\ senders = 0
    /\ queue # << >>
    /\ \E w \in Workers : pc[w] = "recv"

\* C4: clean_dir returns true exactly when no listing, entry or deletion
\* failure occurred in any worker during the run.
C4_ResultIffNoFailure == Returned => (result <=> status.error_count = 0)

C4_Witness ==
    /\ Returned
    /\ ~result
    /\ status.error_count = 1
    /\ \E w \in Spawned : has_error[w] /\ BagCardinality(executed) >= 2

\* ------------------------------------------------------------------------
ListingFailures == EventPaths("listing")

EntryFailures == EventPaths("entry")

Scanned == EventPaths("scanned")

\* The entries directly inside d, as the tree had them at the start.
Inside(d) == { e \in tree : Len(e.path) = Len(d) + 1 /\ Parent(e.path) = d }

\* d lies strictly below a directory whose listing failed.
CutOff(d) == \E f \in ListingFailures : f # d /\ IsPrefix(f, d)

\* C5: when no entry fails, listing and deletion failures cost only what lies
\* below a directory whose listing failed: every other reachable directory is
\* scanned and every other matched target has its Remove job executed, as in
\* the run without the failure.
C5_FailuresDoNotStopRun ==
    Returned /\ worker_count >= 1 /\ EntryFailures = {} =>
        /\ Scanned = { d \in Dirs : Scannable(d) /\ ~CutOff(d) }
        /\ PathsOf("Remove", executed) =
              { t \in MatchedTargets : /\ Scannable(Parent(t))
                                       /\ ~CutOff(t)
                                       /\ Parent(t) \notin ListingFailures }

C5_Witness ==
    /\ Returned
    /\ \E f \in ListingFailures : \E d \in Scanned :
          f # Root /\ d # f /\ Len(d) = Len(f) /\ Parent(d) = Parent(f)

PlainDir(e) == e.dir /\ FileName(e.path) # Target /\ FileName(e.path) # CargoToml

\* The jobs the listing of d owes, given the entries that did not fail: a Scan
\* job per ordinary directory, a Remove job for a target directory when an
\* entry named Cargo.toml came with it.
JobsOwed(d) ==
    LET ok == { e \in Inside(d) : e.path \notin EntryFailures }
    IN  { ScanJob(e.path) : e \in { x \in ok : PlainDir(x) } }
        \cup { RemoveJob(e.path) : e \in { x \in ok : /\ x.dir
                                                       /\ FileName(x.path) = Target
                                                       /\ \E c \in ok : FileName(c.path) = CargoToml } }

\* C6: on_scanned is reported once for every Scan job executed, whether its
\* listing succeeded, failed or had failing entries, and never twice for a
\* directory; when it is reported every job the listing yields has been sent;
\* and at the end every Scan job sent has its on_scanned.
C6_ScannedOncePerScanJob ==
    /\ \A d \in Dirs :
          /\ CopiesIn(Event("scanned", d), status.events) = CopiesIn(ScanJob(d), executed)
          /\ CopiesIn(Event("scanned", d), status.events) <= 1
    /\ \A d \in Scanned \ ListingFailures : \A j \in JobsOwed(d) : BagIn(j, sent)
    /\ Returned /\ worker_count >= 1 => PathsOf("Scan", sent) = Scanned

C6_Witness ==
    \E d \in Scanned :
        /\ \E e \in Inside(d) : e.path \in EntryFailures
        /\ \E i \in 1 .. Len(queue) : queue[i] \in JobsOwed(d)

\* C7 as stated: after a run without failure clean_dir returns true and the
\* scanned count is the number of directories of the tree, leaving out only
\* what remove_dir_all deleted (the artifact directories and their contents).
C7_AllDirectoriesScanned ==
    CleanRun => result /\ status.scanned_count = Cardinality({ d \in Dirs : Exists(d) })

\* C7 amended: after a run without failure clean_dir returns true and the
\* scanned count is the number of directories the walk reaches: the root and
\* the directories below it through directories none of which is named target
\* or Cargo.toml (so a directory named target or Cargo.toml, deleted or not,
\* and everything beneath it, is not counted).
C7_ReachableDirectoriesScanned ==
    CleanRun => result /\ status.scanned_count = Cardinality({ d \in Dirs : Scannable(d) })

C7_Witness ==
    /\ CleanRun
    /\ result
    /\ status.scanned_count >= 2
    /\ \E d \in Dirs : Exists(d) /\ ~Scannable(d)

\* Entry e was yielded, without error, by the listing of its directory.
YieldedOk(e) ==
    /\ e.path \notin EntryFailures
    /\ Parent(e.path) \notin ListingFailures
    /\ \/ BagIn(ScanJob(Parent(e.path)), executed)
       \/ \E w \in Workers : pc[w] = "scan" /\ job[w].path = Parent(e.path) /\ e \notin iter[w]

\* C8: a Remove job is sent only for a directory named target whose listing
\* has yielded both that directory and an entry named Cargo.toml beside it.
C8_RemoveNeedsBoth ==
    \A j \in BagToSet(sent) : j.kind = "Remove" =>
        /\ Len(j.path) >= 1
        /\ FileName(j.path) = Target
        /\ [path |-> j.path, dir |-> TRUE] \in tree
        /\ YieldedOk([path |-> j.path, dir |-> TRUE])
        /\ \E c \in Inside(Parent(j.path)) : FileName(c.path) = CargoToml /\ YieldedOk(c)

C8_Witness ==
    \E w \in Workers :
        /\ pc[w] = "scan"
        /\ iter[w] # {}
        /\ BagIn(RemoveJob(Append(job[w].path, Target)), sent)

JobsSentFrom(d) == { j \in BagToSet(sent) : j.path # Root /\ Parent(j.path) = d }

HasBoth(d) ==
    /\ \E c \in Inside(d) : FileName(c.path) = CargoToml
    /\ \E t \in Inside(d) : t.dir /\ FileName(t.path) = Target

\* C9: a listing with an entry named Cargo.toml and a target directory, and no
\* failing entry, sends one Remove job for that directory and one Scan job per
\* ordinary directory, each once, in whatever order the entries were yielded.
C9_OrderIndependent ==
    \A d \in Scanned \ ListingFailures :
        HasBoth(d) /\ (\A e \in Inside(d) : e.path \notin EntryFailures) =>
            /\ JobsSentFrom(d) = JobsOwed(d)
            /\ RemoveJob(Append(d, Target)) \in JobsOwed(d)
            /\ \A j \in JobsOwed(d) : CopiesIn(j, sent) = 1

C9_Witness ==
    \E d \in Scanned :
        /\ HasBoth(d)
        /\ \E e \in Inside(d) : PlainDir(e)
        /\ status.error_count = 0
        /\ Cardinality(JobsSentFrom(d)) = 2

\* C10: no Scan job is ever sent for the path of a Remove job or for a path
\* beneath it, so no scan runs inside a tree that is being deleted.
C10_NoScanUnderRemove ==
    \A r \in PathsOf("Remove", sent) : \A d \in PathsOf("Scan", sent) : ~IsPrefix(r, d)

C10_Witness ==
    \E w \in Workers : \E v \in Workers :
        /\ pc[w] = "remove"
        /\ pc[v] = "scan"
        /\ \E e \in tree : e.path # job[w].path /\ IsPrefix(job[w].path, e.path)

\* ================================================= one Scan job on its own
\* What a listing may yield: an entry by its name and file type, ok when its
\* file type can be read.  Nothing keeps a listing from yielding a name twice.
EntryKinds == [name : {CargoToml, Target, "a"}, dir : BOOLEAN, ok : BOOLEAN]

Listings == UNION { [1 .. n -> EntryKinds] : n \in 0 .. MaxLen }

\* entry.path() and entry.file_type() of an entry of the scanned directory.
EntryOf(x) == [path |-> Append(Root, x.name), dir |-> x.dir]

\* process_entry looking at the name before the file type is known.
ProcessDirEntryNameFirst(st, x) ==
    IF x.name = CargoToml
    THEN LET r == OnCargoToml(st) IN [state |-> r.state, job |-> r.job, err |-> FALSE]
    ELSE IF ~x.ok
    THEN [state |-> st, job |-> NoJob, err |-> TRUE]
    ELSE LET r == ProcessEntry(st, EntryOf(x))
         IN  [state |-> r.state, job |-> r.job, err |-> FALSE]

\* process_entry on a DirEntry: entry.file_type()? returns the error before the
\* ScanState is looked at.
ProcessDirEntry(st, x) ==
    IF ~x.ok
    THEN [state |-> st, job |-> NoJob, err |-> TRUE]
    ELSE LET r == ProcessEntry(st, EntryOf(x))
         IN  [state |-> r.state, job |-> r.job, err |-> FALSE]

\* The run's variables, at rest while one Scan job is looked at on its own.
RunIdle ==
    /\ tree = {}
    /\ worker_count = 0
    /\ removed = {}
    /\ queue = << >>
    /\ senders = 0
    /\ receivers = 0
    /\ pc = [w \in Workers |-> "unspawned"]
    /\ job = [w \in Workers |-> NoJob]
    /\ iter = [w \in Workers |-> {}]
    /\ state = [w \in Workers |-> Nothing]
    /\ scan_error = [w \in Workers |-> FALSE]
    /\ has_error = [w \in Workers |-> FALSE]
    /\ main = "scope"
    /\ result = FALSE
    /\ status = [error_count |-> 0, removed_count |-> 0, scanned_count |-> 0,
                 events |-> EmptyBag]
    /\ sent = EmptyBag
    /\ executed = EmptyBag

\* A worker has received a Scan job and read_dir has opened its listing.
InitScan ==
    /\ listing \in Listings
    /\ pos = 0
    /\ sstate = Nothing
    /\ out = << >>
    /\ send_ok \in BOOLEAN
    /\ serrors = 0
    /\ sscanned = 0
    /\ sflag = FALSE
    /\ sacc \in BOOLEAN
    /\ RunIdle

\* The iterator yields its next entry; the worker sends the job made of it or
\* reports the entry's error.
ListEntry ==
    /\ pos < Len(listing)
    /\ sscanned = 0
    /\ LET r == ProcessDirEntry(sstate, listing[pos + 1])
       IN  /\ sstate' = r.state
           /\ IF r.err
              THEN /\ serrors' = serrors + 1
                   /\ sflag' = TRUE
                   /\ UNCHANGED out
              ELSE IF r.job = NoJob
              THEN UNCHANGED << serrors, sflag, out >>
              ELSE /\ out' = Append(out, [at |-> pos + 1, job |-> r.job])
                   /\ sflag' = FoldScanItem(sflag, ~send_ok)
                   /\ UNCHANGED serrors
    /\ pos' = pos + 1
    /\ UNCHANGED << listing, send_ok, sscanned, sacc >>
    /\ UNCHANGED runVars

\* The iterator is exhausted: on_scanned, and the scan's has_error is folded
\* into the worker's.
ListEnd ==
    /\ pos = Len(listing)
    /\ sscanned = 0
    /\ sscanned' = 1
    /\ sacc' = FoldError(sacc, sflag)
    /\ UNCHANGED << listing, pos, sstate, out, send_ok, serrors, sflag >>
    /\ UNCHANGED runVars

NextScan == ListEntry \/ ListEnd

ScanSpec == InitScan /\ [][NextScan]_vars

\* --------------------------------------------- properties of one Scan job
Yielded == 1 .. pos

OkCargoAt(k) == listing[k].ok /\ listing[k].name = CargoToml

OkTargetDirAt(k) == listing[k].ok /\ listing[k].dir /\ listing[k].name = Target

FailedSoFar == Cardinality({ k \in Yielded : ~listing[k].ok })

\* Position of the first readable entry named Cargo.toml yielded so far, or 0.
FirstCargo ==
    IF \E k \in Yielded : OkCargoAt(k)
    THEN CHOOSE k \in Yielded : OkCargoAt(k) /\ \A i \in 1 .. k - 1 : ~OkCargoAt(i)
    ELSE 0

\* Remove jobs yielded at an entry named Cargo.toml, and at a target directory.
RemovesAtCargo == { i \in 1 .. Len(out) : out[i].job.kind = "Remove" /\ OkCargoAt(out[i].at) }

RemovesAtTarget == { i \in 1 .. Len(out) : out[i].job.kind = "Remove" /\ OkTargetDirAt(out[i].at) }

C11_NeverReturns == worker_count = 0 => queue = << ScanJob(Root) >> /\ ~Returned

\* C11 amended: with worker_count = 0 no worker consumes the root Scan job and
\* nothing is scanned, removed or reported; with no worker to join, clean_dir
\* is free to return at once and returns true.
C11_ReturnsTrueUnscanned ==
    worker_count = 0 =>
        /\ queue = << ScanJob(Root) >>
        /\ executed = EmptyBag
        /\ status.events = EmptyBag
        /\ main = "scope" => ENABLED Join
        /\ Returned => result

C11_Witness ==
    /\ worker_count = 0
    /\ Returned
    /\ result
    /\ tree # {}
    /\ queue = << ScanJob(Root) >>

InQueue(j) == Cardinality({ i \in 1 .. Len(queue) : queue[i] = j })

Holding(j) == Cardinality({ w \in Workers : pc[w] \in {"scan", "remove"} /\ job[w] = j })

\* C12: every job sent is sent once and is at any time in exactly one place:
\* pending in the queue, held by exactly one worker, or executed once; nothing
\* is executed that was not sent, and at the end every job was executed once.
C12_ExactlyOnce ==
    /\ \A j \in BagToSet(sent) :
          /\ CopiesIn(j, sent) = 1
          /\ InQueue(j) + Holding(j) + CopiesIn(j, executed) = 1
    /\ \A j \in BagToSet(executed) : BagIn(j, sent)
    /\ Returned /\ worker_count >= 1 =>
          \A j \in BagToSet(sent) : CopiesIn(j, executed) = 1

C12_Witness ==
    \E w \in Workers : \E v \in Workers :
        /\ w # v
        /\ pc[w] = "scan"
        /\ pc[v] \in {"scan", "remove"}
        /\ Len(queue) >= 1

\* The jobs owed by a set of entries yielded without error by one listing.
JobsOwedBy(ok) ==
    { ScanJob(e.path) : e \in { x \in ok : PlainDir(x) } }
    \cup { RemoveJob(e.path) : e \in { x \in ok : /\ x.dir
                                                   /\ FileName(x.path) = Target
                                                   /\ \E c \in ok : FileName(c.path) = CargoToml } }

\* C14: while any worker is running the channel has its Receiver, so no send
\* fails: a failure flag is only ever set along with an on_error event, and
\* every job owed by the entries a scan has yielded so far has been sent.
C14_SendNeverFails ==
    /\ (\E w \in Workers : pc[w] \in {"recv", "scan", "remove"}) => ~SendFails
    /\ \A w \in Workers : scan_error[w] \/ has_error[w] => status.error_count > 0
    /\ \A w \in Workers : pc[w] = "scan" =>
          \A j \in JobsOwedBy({ e \in Inside(job[w].path) \ iter[w] : e.path \notin EntryFailures }) :
              BagIn(j, sent)

C14_Witness ==
    \E w \in Workers :
        /\ pc[w] = "scan"
        /\ iter[w] # {}
        /\ Cardinality(JobsSentFrom(job[w].path)) >= 2

\* C15: a listing that cannot be opened gives exactly one on_error and one
\* on_scanned for its directory, sends no job and reports no entry; the step
\* that fails sets the has_error of the worker taking it and leaves every
\* worker in its receive loop.
C15_ListingFailure ==
    /\ [](\A d \in ListingFailures :
              /\ CopiesIn(Event("listing", d), status.events) = 1
              /\ CopiesIn(Event("scanned", d), status.events) = 1
              /\ CopiesIn(ScanJob(d), executed) = 1
              /\ JobsSentFrom(d) = {}
              /\ \A e \in Inside(d) : e.path \notin EntryFailures
              /\ \E w \in Spawned : has_error[w])
    /\ [][ListingFailures' # ListingFailures =>
              /\ status'.error_count = status.error_count + 1
              /\ sent' = sent
              /\ \A w \in Workers : pc[w] = "recv" => pc'[w] = "recv"
              /\ \E w \in Spawned :
                    /\ pc[w] = "recv"
                    /\ has_error'[w]
                    /\ \A v \in Workers \ {w} : has_error'[v] = has_error[v] /\ pc'[v] = pc[v]]_vars

C15_Witness ==
    /\ worker_count = 1
    /\ \E d \in ListingFailures :
          /\ Inside(d) # {}
          /\ \E b \in Scanned \ ListingFailures : Len(b) = Len(d) /\ b # Root

DeletionFailures == EventPaths("remove")

\* C20: every Remove job executed has exactly one event, on_removal or the
\* on_error of its failure, and sends no job; at the end the on_removal events
\* and the deletion failures together number the Remove jobs the scans sent.
C20_OneEventPerRemove ==
    /\ \A p \in PathsOf("Remove", sent) :
          /\ CopiesIn(Event("removal", p), status.events) + CopiesIn(Event("remove", p), status.events)
                = CopiesIn(RemoveJob(p), executed)
          /\ JobsSentFrom(p) = {}
    /\ status.removed_count = Cardinality(EventPaths("removal"))
    /\ EventPaths("removal") \cup DeletionFailures \subseteq PathsOf("Remove", executed)
    /\ Returned /\ worker_count >= 1 =>
          status.removed_count + Cardinality(DeletionFailures)
              = Cardinality(PathsOf("Remove", sent))

C20_Witness ==
    /\ Returned
    /\ DeletionFailures # {}
    /\ \A p \in DeletionFailures : \E e \in tree : e.path # p /\ IsPrefix(p, e.path)

\* ------------------------------------------ classification of one listing
IsOk(x) == x.ok

\* process_entry folded over entries whose file type is known: the ScanState
\* reached and the jobs yielded, in order.
RECURSIVE Classify(_, _)
Classify(st, es) ==
    IF es = << >>
    THEN [state |-> st, jobs |-> << >>]
    ELSE LET r == ProcessEntry(st, EntryOf(Head(es)))
             rest == Classify(r.state, Tail(es))
         IN  [state |-> rest.state,
              jobs |-> IF r.job = NoJob THEN rest.jobs ELSE << r.job >> \o rest.jobs]

JobsOut == [i \in 1 .. Len(out) |-> out[i].job]

RemovesOut == { i \in 1 .. Len(out) : out[i].job.kind = "Remove" }

TargetsYielded == { k \in Yielded : OkTargetDirAt(k) }

\* C16: an entry whose file type cannot be read gives one on_error and no job
\* and leaves the ScanState alone whatever its name: the ScanState and the jobs
\* yielded are those of the same listing with the failing entries taken out.
C16_FailedEntrySkipped ==
    /\ serrors = FailedSoFar
    /\ \A i \in 1 .. Len(out) : listing[out[i].at].ok
    /\ LET c == Classify(Nothing, SelectSeq(SubSeq(listing, 1, pos), IsOk))
       IN  /\ sstate = c.state
           /\ JobsOut = c.jobs

C16_Witness ==
    /\ pos = Len(listing)
    /\ serrors = 1
    /\ sstate.tag = "FoundTarget"
    /\ \E k \in Yielded : \E j \in Yielded :
          /\ k < j
          /\ ~listing[k].ok
          /\ listing[k].name = CargoToml
          /\ OkTargetDirAt(j)

\* C17 as stated: when a listing yields more than one target directory, it
\* emits at most one Remove job wherever the Cargo.toml entry comes, and a
\* Remove job yielded at a target directory is yielded at the first of them.
C17_FirstTargetWins ==
    Cardinality(TargetsYielded) >= 2 =>
        /\ Cardinality(RemovesOut) <= 1
        /\ \A i \in RemovesAtTarget : \A k \in TargetsYielded : out[i].at <= k

\* C17 amended: of the target directories yielded before the first Cargo.toml
\* entry only the first is kept pending and that Cargo.toml entry yields the
\* one Remove job for them; each target directory yielded after the first
\* Cargo.toml entry yields a Remove job of its own.
C17_FirstPendingWins ==
    /\ RemovesOut = RemovesAtCargo \cup RemovesAtTarget
    /\ FirstCargo = 0 =>
          /\ RemovesOut = {}
          /\ sstate.tag = (IF TargetsYielded = {} THEN "Nothing" ELSE "FoundTarget")
    /\ \A i \in RemovesAtCargo : out[i].at = FirstCargo
    /\ FirstCargo > 0 =>
          /\ Cardinality(RemovesAtCargo)
                = (IF \E k \in TargetsYielded : k < FirstCargo THEN 1 ELSE 0)
          /\ { out[i].at : i \in RemovesAtTarget } = { k \in TargetsYielded : k > FirstCargo }
          /\ Cardinality(RemovesAtTarget) = Cardinality({ k \in TargetsYielded : k > FirstCargo })

C17_Witness ==
    /\ pos = Len(listing)
    /\ FirstCargo > 0
    /\ Cardinality({ k \in TargetsYielded : k < FirstCargo }) >= 2
    /\ Cardinality(RemovesOut) = 1

\* C18: the ScanState only moves forward, Nothing to FoundTarget or
\* FoundCargoToml and FoundTarget to FoundCargoToml, and never leaves
\* FoundCargoToml; an entry named Cargo.toml met in FoundCargoToml yields
\* nothing and changes nothing; the Cargo.toml entries of a listing yield the
\* Remove job of a pending target at most once.
C18_StateMovesForward ==
    /\ [][/\ sstate.tag = "FoundCargoToml" => sstate' = sstate
          /\ sstate.tag = "FoundTarget" => sstate' = sstate \/ sstate' = FoundCargoToml
          /\ sstate.tag = "Nothing" => sstate'.tag \in {"Nothing", "FoundTarget", "FoundCargoToml"}
          /\ (/\ pos' = pos + 1
              /\ OkCargoAt(pos + 1)
              /\ sstate = FoundCargoToml) => UNCHANGED << sstate, out, serrors, sflag >>]_vars
    /\ [](Cardinality(RemovesAtCargo) <= 1)

C18_Witness ==
    /\ pos = Len(listing)
    /\ sstate = FoundCargoToml
    /\ Cardinality({ k \in Yielded : OkCargoAt(k) }) >= 2
    /\ \E k \in TargetsYielded : k < FirstCargo
    /\ Cardinality(RemovesOut) = 1

\* C19 as stated: an entry that is a directory other than a target directory
\* yields exactly one Scan job for its own path, in every ScanState, and
\* leaves the ScanState unchanged.
C19_OtherDirectoryScanned ==
    [][(/\ pos' = pos + 1
        /\ listing[pos + 1].ok
        /\ listing[pos + 1].dir
        /\ listing[pos + 1].name # Target) =>
            /\ out' = Append(out, [at |-> pos + 1, job |-> ScanJob(EntryOf(listing[pos + 1]).path)])
            /\ sstate' = sstate]_vars
====
